---- MODULE Spec2Model ----
(***************************************************************************)
(* Model of package domain of azusaanson/invest-api: the identity value    *)
(* objects (UserID, UserName, UserRole, Password, HashedPassword), the     *)
(* User aggregate and its two constructors, and password hashing and       *)
(* verification.                                                           *)
(*                                                                         *)
(* A Go string is a sequence of bytes (0..255).  A []byte is a slice: a    *)
(* reference to a backing array of the heap together with a length.  An    *)
(* error is a chain of layers, outermost first, whose last layer is the    *)
(* sentinel; nil is the empty chain.                                       *)
(***************************************************************************)
EXTENDS Integers, Sequences, FiniteSets, TLC

VARIABLES
    scen,      \* which caller program runs in this behaviour
    pc,        \* the caller's position
    v,         \* the raw string handed to the validator under test
    password,  \* the Password a successful NewPassword returned
    err,       \* the error returned by the most recent call
    lastCall,  \* the function called most recently
    ret,       \* the value returned by the most recent validator call
    hashErr,   \* the error of bcrypt.GenerateFromPassword that Hash discards
    hashed,    \* the HashedPassword (a slice) returned by Hash or NewHashedPassword
    cand,      \* the Password handed to Verify
    args,      \* the arguments of NewUser / NewUserFromSource
    user,      \* the *User returned (NilUser when nil)
    got,       \* what the accessors returned when last called
    snap,      \* the accessors' values right after construction
    heap,      \* backing arrays of the byte slices
    wraps,     \* number of times the caller re-wrapped err
    writes     \* number of writes the caller made into byte slices

vars == <<scen, pc, v, password, err, lastCall, ret, hashErr, hashed, cand,
          args, user, got, snap, heap, wraps, writes>>

----------------------------------------------------------------------------
(* Bounds of the model. *)

\* longest run of the padding character in a generated password input
MaxPwPad == 17
\* longest run of the repeated character in a generated name input
MaxNamePad == 34
\* number of distinct salts the random source can deliver
NumSalts == 2
\* longest run of the padding character in the inputs of the verification scenario
MaxVerifyPad == 7
\* how many more times a caller wraps a returned error
MaxWraps == 2
\* how many writes a caller makes into byte slices it holds
MaxWrites == 2

----------------------------------------------------------------------------
(* Strings and UTF-8. *)

RECURSIVE Repeat(_, _)
Repeat(s, k) == IF k <= 0 THEN <<>> ELSE s \o Repeat(s, k - 1)

RuneError == 65533

IsCont(b) == b >= 128 /\ b <= 191

\* Size announced by the first byte of an encoding (0: not a first byte).
FirstSize(b) ==
    IF b < 128 THEN 1
    ELSE IF b >= 194 /\ b <= 223 THEN 2
    ELSE IF b >= 224 /\ b <= 239 THEN 3
    ELSE IF b >= 240 /\ b <= 244 THEN 4
    ELSE 0

\* Range the second byte must lie in, by first byte.
AcceptLo(b) == IF b = 224 THEN 160 ELSE IF b = 240 THEN 144 ELSE 128
AcceptHi(b) == IF b = 237 THEN 159 ELSE IF b = 244 THEN 143 ELSE 191

\* utf8.DecodeRuneInString at byte offset i (1-based): <<rune, width>>.
DecodeRuneAt(s, i) ==
    LET b0 == s[i]
        sz == FirstSize(b0)
    IN  IF sz = 1 THEN <<b0, 1>>
        ELSE IF sz = 0 \/ i + sz - 1 > Len(s) THEN <<RuneError, 1>>
        ELSE IF s[i + 1] < AcceptLo(b0) \/ s[i + 1] > AcceptHi(b0) THEN <<RuneError, 1>>
        ELSE IF sz = 2 THEN <<(b0 - 192) * 64 + (s[i + 1] - 128), 2>>
        ELSE IF ~IsCont(s[i + 2]) THEN <<RuneError, 1>>
        ELSE IF sz = 3
             THEN <<(b0 - 224) * 4096 + (s[i + 1] - 128) * 64 + (s[i + 2] - 128), 3>>
        ELSE IF ~IsCont(s[i + 3]) THEN <<RuneError, 1>>
        ELSE <<(b0 - 240) * 262144 + (s[i + 1] - 128) * 4096
                 + (s[i + 2] - 128) * 64 + (s[i + 3] - 128), 4>>

RECURSIVE RunesFrom(_, _)
RunesFrom(s, i) ==
    IF i > Len(s) THEN <<>>
    ELSE LET d == DecodeRuneAt(s, i) IN <<d[1]>> \o RunesFrom(s, i + d[2])

\* []rune(v)
Runes(s) == RunesFrom(s, 1)

----------------------------------------------------------------------------
(* Errors: github.com/pkg/errors chains. *)

Nil == <<>>

Fundamental(id) == <<[layer |-> "sentinel", text |-> id]>>

ErrUserIDZero == Fundamental("ErrUserIDZero")
ErrUserNameEmpty == Fundamental("ErrUserNameEmpty")
ErrUserNameTooLong == Fundamental("ErrUserNameTooLong")
ErrHashedPasswordEmpty == Fundamental("ErrHashedPasswordEmpty")
ErrHashedPasswordNotMatch == Fundamental("ErrHashedPasswordNotMatch")
ErrUserRoleInvalid == Fundamental("ErrUserRoleInvalid")
ErrPasswordEmpty == Fundamental("ErrPasswordEmpty")
ErrPasswordTooShort == Fundamental("ErrPasswordTooShort")
ErrPasswordTooLong == Fundamental("ErrPasswordTooLong")
ErrPasswordDoesNotFollowRule == Fundamental("ErrPasswordDoesNotFollowRule")

\* errors.WithStack: nil stays nil, otherwise one more layer around the cause.
WithStack(e) == IF e = Nil THEN Nil ELSE <<[layer |-> "withStack", text |-> ""]>> \o e

\* errors.Wrap(e, message): withStack around withMessage around the cause.
Wrap(e, message) ==
    IF e = Nil THEN Nil
    ELSE <<[layer |-> "withStack", text |-> ""],
           [layer |-> "withMessage", text |-> message]>> \o e

\* errors.Cause: follow Cause() while the error has one.
RECURSIVE Cause(_)
Cause(e) ==
    IF e = Nil THEN Nil
    ELSE IF Head(e).layer \in {"withStack", "withMessage"} /\ Len(e) > 1
         THEN Cause(Tail(e))
         ELSE e

\* errors.Is(e, target): some error of the Unwrap chain is target itself.
Is(e, target) == \E i \in 1..Len(e) : SubSeq(e, i, Len(e)) = target

----------------------------------------------------------------------------
(* Value objects and their validators. *)

UserNameMaxLength == 32
PasswordMinLength == 8
PasswordMaxLength == 16
PasswordHashCost == 10

\* "user", "admin"
RoleUser == <<117, 115, 101, 114>>
RoleAdmin == <<97, 100, 109, 105, 110>>

NewUserID(x) ==
    IF x = 0 THEN [val |-> 0, err |-> ErrUserIDZero]
    ELSE [val |-> x, err |-> Nil]

\* Mutant: the length is taken in bytes, len(v), not in code points.
NewUserNameByteLength(s) ==
    IF s = <<>> THEN [val |-> <<>>, err |-> WithStack(ErrUserNameEmpty)]
    ELSE IF Len(s) > UserNameMaxLength
         THEN [val |-> <<>>, err |-> WithStack(ErrUserNameTooLong)]
    ELSE [val |-> s, err |-> Nil]

NewUserName(s) ==
    IF s = <<>> THEN [val |-> <<>>, err |-> WithStack(ErrUserNameEmpty)]
    ELSE IF Len(Runes(s)) > UserNameMaxLength
         THEN [val |-> <<>>, err |-> WithStack(ErrUserNameTooLong)]
    ELSE [val |-> s, err |-> Nil]

\* The bytes of the HashedPassword; the action that calls it allocates them.
NewHashedPassword(s) ==
    IF s = <<>> THEN [val |-> <<>>, err |-> WithStack(ErrHashedPasswordEmpty)]
    ELSE [val |-> s, err |-> Nil]

NewUserRole(s) ==
    IF s = RoleUser THEN [val |-> RoleUser, err |-> Nil]
    ELSE IF s = RoleAdmin THEN [val |-> RoleAdmin, err |-> Nil]
    ELSE [val |-> <<>>, err |-> WithStack(ErrUserRoleInvalid)]

\* A character class: a set of inclusive ranges of code points.
InClass(r, class) == \E rg \in class : rg[1] <= r /\ r <= rg[2]

\* Mutant: the class without its last range, [0-9a-zA-Z!-/:-@[-`].
PasswordCharctersClassNoBraces ==
    {<<48, 57>>, <<97, 122>>, <<65, 90>>, <<33, 47>>, <<58, 64>>, <<91, 96>>}

\* [0-9a-zA-Z!-/:-@[-`{-~]
PasswordCharctersClass ==
    {<<48, 57>>, <<97, 122>>, <<65, 90>>, <<33, 47>>, <<58, 64>>, <<91, 96>>, <<123, 126>>}

\* ^[class]+$ : the whole text, at least one character, every one in the class.
PasswordCharcters(s) ==
    LET rs == Runes(s)
    IN  Len(rs) >= 1 /\ \A i \in 1..Len(rs) : InClass(rs[i], PasswordCharctersClass)

\* [[:alpha:]], [[:digit:]], [[:punct:]]
AlphaClass == {<<65, 90>>, <<97, 122>>}
DigitClass == {<<48, 57>>}
PunctClass == {<<33, 47>>, <<58, 64>>, <<91, 96>>, <<123, 126>>}

PasswordMustIncludes == <<AlphaClass, DigitClass, PunctClass>>

\* expected.FindString(v) != "": some character of v is in the class.
Finds(class, s) ==
    LET rs == Runes(s) IN \E i \in 1..Len(rs) : InClass(rs[i], class)

\* Mutant: the composition checks run before the length checks.
NewPasswordPolicyFirst(s) ==
    IF s = <<>> THEN [val |-> <<>>, err |-> WithStack(ErrPasswordEmpty)]
    ELSE IF ~PasswordCharcters(s)
         THEN [val |-> <<>>, err |-> WithStack(ErrPasswordDoesNotFollowRule)]
    ELSE IF \E k \in 1..Len(PasswordMustIncludes) : ~Finds(PasswordMustIncludes[k], s)
         THEN [val |-> <<>>, err |-> WithStack(ErrPasswordDoesNotFollowRule)]
    ELSE IF Len(Runes(s)) < PasswordMinLength
         THEN [val |-> <<>>, err |-> WithStack(ErrPasswordTooShort)]
    ELSE IF PasswordMaxLength < Len(Runes(s))
         THEN [val |-> <<>>, err |-> WithStack(ErrPasswordTooLong)]
    ELSE [val |-> s, err |-> Nil]

\* Mutant: the character-set check is missing, only the three inclusions remain.
NewPasswordNoCharset(s) ==
    IF s = <<>> THEN [val |-> <<>>, err |-> WithStack(ErrPasswordEmpty)]
    ELSE IF Len(Runes(s)) < PasswordMinLength
         THEN [val |-> <<>>, err |-> WithStack(ErrPasswordTooShort)]
    ELSE IF PasswordMaxLength < Len(Runes(s))
         THEN [val |-> <<>>, err |-> WithStack(ErrPasswordTooLong)]
    ELSE IF \E k \in 1..Len(PasswordMustIncludes) : ~Finds(PasswordMustIncludes[k], s)
         THEN [val |-> <<>>, err |-> WithStack(ErrPasswordDoesNotFollowRule)]
    ELSE [val |-> s, err |-> Nil]

NewPassword(s) ==
    IF s = <<>> THEN [val |-> <<>>, err |-> WithStack(ErrPasswordEmpty)]
    ELSE IF Len(Runes(s)) < PasswordMinLength
         THEN [val |-> <<>>, err |-> WithStack(ErrPasswordTooShort)]
    ELSE IF PasswordMaxLength < Len(Runes(s))
         THEN [val |-> <<>>, err |-> WithStack(ErrPasswordTooLong)]
    ELSE IF ~PasswordCharcters(s)
         THEN [val |-> <<>>, err |-> WithStack(ErrPasswordDoesNotFollowRule)]
    ELSE IF \E k \in 1..Len(PasswordMustIncludes) : ~Finds(PasswordMustIncludes[k], s)
         THEN [val |-> <<>>, err |-> WithStack(ErrPasswordDoesNotFollowRule)]
    ELSE [val |-> s, err |-> Nil]

----------------------------------------------------------------------------
(* golang.org/x/crypto/bcrypt as the package uses it.  The digest is an    *)
(* injective function of salt, cost and the key bcrypt derives from the    *)
(* password (the password followed by a zero byte, repeated to fill the    *)
(* 72 bytes the cipher's key schedule reads): collisions of the underlying *)
(* cipher are not modelled.                                                *)

BcryptMaxPasswordLength == 72
BcryptMinCost == 4
BcryptMaxCost == 31
BcryptDefaultCost == 10

BcryptErr(id) == <<[layer |-> "sentinel", text |-> id]>>

\* The salt the random source delivers on its k-th possible outcome.
Salts == {<<65 + k>> : k \in 0..(NumSalts - 1)}

BcryptKey(pw) ==
    LET ckey == pw \o <<0>>
    IN  [i \in 1..BcryptMaxPasswordLength |-> ckey[((i - 1) % Len(ckey)) + 1]]

BcryptDigest(pw, cost, salt) ==
    LET key == BcryptKey(pw)
    IN  [i \in 1..BcryptMaxPasswordLength |-> (key[i] + salt[1] + cost) % 256]

\* "$2a$" cost "$"
BcryptHeader(cost) == <<36, 50, 97, 36, 48 + (cost \div 10), 48 + (cost % 10), 36>>

BcryptHashSize == Len(BcryptHeader(BcryptDefaultCost)) + 1 + BcryptMaxPasswordLength

\* bcrypt.GenerateFromPassword(password, cost), with the salt it drew.
GenerateFromPassword(pw, cost, salt) ==
    IF Len(pw) > BcryptMaxPasswordLength
    THEN [val |-> <<>>, err |-> BcryptErr("bcrypt.ErrPasswordTooLong")]
    ELSE LET c == IF cost < BcryptMinCost THEN BcryptDefaultCost ELSE cost
         IN  IF c > BcryptMaxCost
             THEN [val |-> <<>>, err |-> BcryptErr("bcrypt.InvalidCostError")]
             ELSE [val |-> BcryptHeader(c) \o salt \o BcryptDigest(pw, c, salt),
                   err |-> Nil]

\* bcrypt.CompareHashAndPassword(hashedPassword, password)
CompareHashAndPassword(h, pw) ==
    IF Len(h) < BcryptHashSize THEN BcryptErr("bcrypt.ErrHashTooShort")
    ELSE IF h[1] # 36 THEN BcryptErr("bcrypt.InvalidHashPrefixError")
    ELSE IF h[2] > 50 THEN BcryptErr("bcrypt.HashVersionTooNewError")
    ELSE LET cost == (h[5] - 48) * 10 + (h[6] - 48)
             salt == <<h[8]>>
         IN  IF cost < BcryptMinCost \/ cost > BcryptMaxCost
             THEN BcryptErr("bcrypt.InvalidCostError")
             ELSE IF SubSeq(h, 9, Len(h)) = BcryptDigest(pw, cost, salt)
                  THEN Nil
                  ELSE BcryptErr("bcrypt.ErrMismatchedHashAndPassword")

\* Mutant: the result of the comparison is dropped, as Hash drops its error.
VerifyDiscardsError(h, pass) == Nil

\* Mutant: the arguments of errors.Wrap are exchanged, so the bcrypt error is the cause.
VerifyWrapsBcryptError(h, pass) ==
    LET e == CompareHashAndPassword(h, pass)
    IN  IF e # Nil THEN Wrap(e, "hashed password: not match") ELSE Nil

\* HashedPassword.Verify on the bytes the receiver refers to.
Verify(h, pass) ==
    LET e == CompareHashAndPassword(h, pass)
    IN  IF e # Nil THEN Wrap(ErrHashedPasswordNotMatch, e[1].text) ELSE Nil

\* Password.Hash: the error is discarded, the bytes (none on failure) returned.
Hash(pass, salt) == GenerateFromPassword(pass, PasswordHashCost, salt)

----------------------------------------------------------------------------
(* Byte slices and the User aggregate. *)

NilSlice == [arr |-> 0, len |-> 0]

\* The bytes a slice refers to in heap h.
Bytes(h, sl) == IF sl.arr = 0 THEN <<>> ELSE SubSeq(h[sl.arr], 1, sl.len)

\* A slice over a freshly allocated array holding b, as the next array of heap h.
NewSlice(h, b) == IF b = <<>> THEN NilSlice ELSE [arr |-> Len(h) + 1, len |-> Len(b)]
Alloc(h, b) == IF b = <<>> THEN h ELSE Append(h, b)

NilUser ==
    [ptr |-> 0, id |-> 0, name |-> <<>>, hashedPassword |-> NilSlice, role |-> <<>>]

\* Mutant: the hashedPassword field is left out of the composite literal.
NewUserDropsHash(n, hp, r) ==
    [user |-> [ptr |-> 1, id |-> 0, name |-> n, hashedPassword |-> NilSlice, role |-> r],
     err |-> Nil]

\* NewUser: the fields are the arguments; the slice is stored as passed.
NewUser(n, hp, r) ==
    [user |-> [ptr |-> 1, id |-> 0, name |-> n, hashedPassword |-> hp, role |-> r],
     err |-> Nil]

\* Mutant: the role is validated before the name.
NewUserFromSourceRoleFirst(h, a) ==
    LET newID == NewUserID(a.id)
        newName == NewUserName(a.name)
        newHashedPassword == NewHashedPassword(a.hashedPassword)
        newRole == NewUserRole(a.role)
    IN  IF newID.err # Nil THEN [user |-> NilUser, err |-> WithStack(newID.err)]
        ELSE IF newRole.err # Nil THEN [user |-> NilUser, err |-> WithStack(newRole.err)]
        ELSE IF newName.err # Nil THEN [user |-> NilUser, err |-> WithStack(newName.err)]
        ELSE IF newHashedPassword.err # Nil
             THEN [user |-> NilUser, err |-> WithStack(newHashedPassword.err)]
        ELSE [user |-> [ptr |-> 1, id |-> newID.val, name |-> newName.val,
                        hashedPassword |-> NewSlice(h, newHashedPassword.val),
                        role |-> newRole.val],
              err |-> Nil]

\* Mutant: on an invalid role the aggregate built so far is returned with the error.
NewUserFromSourcePartial(h, a) ==
    LET newID == NewUserID(a.id)
        newName == NewUserName(a.name)
        newHashedPassword == NewHashedPassword(a.hashedPassword)
        newRole == NewUserRole(a.role)
    IN  IF newID.err # Nil THEN [user |-> NilUser, err |-> WithStack(newID.err)]
        ELSE IF newName.err # Nil THEN [user |-> NilUser, err |-> WithStack(newName.err)]
        ELSE IF newHashedPassword.err # Nil
             THEN [user |-> NilUser, err |-> WithStack(newHashedPassword.err)]
        ELSE IF newRole.err # Nil
             THEN [user |-> [ptr |-> 1, id |-> newID.val, name |-> newName.val,
                             hashedPassword |-> NilSlice, role |-> <<>>],
                   err |-> WithStack(newRole.err)]
        ELSE [user |-> [ptr |-> 1, id |-> newID.val, name |-> newName.val,
                        hashedPassword |-> NewSlice(h, newHashedPassword.val),
                        role |-> newRole.val],
              err |-> Nil]

\* NewUserFromSource on heap h: the validators in order, first error wrapped.
NewUserFromSource(h, a) ==
    LET newID == NewUserID(a.id)
        newName == NewUserName(a.name)
        newHashedPassword == NewHashedPassword(a.hashedPassword)
        newRole == NewUserRole(a.role)
    IN  IF newID.err # Nil THEN [user |-> NilUser, err |-> WithStack(newID.err)]
        ELSE IF newName.err # Nil THEN [user |-> NilUser, err |-> WithStack(newName.err)]
        ELSE IF newHashedPassword.err # Nil
             THEN [user |-> NilUser, err |-> WithStack(newHashedPassword.err)]
        ELSE IF newRole.err # Nil THEN [user |-> NilUser, err |-> WithStack(newRole.err)]
        ELSE [user |-> [ptr |-> 1, id |-> newID.val, name |-> newName.val,
                        hashedPassword |-> NewSlice(h, newHashedPassword.val),
                        role |-> newRole.val],
              err |-> Nil]

\* What ID(), Name(), HashedPassword() and Role() return, the slice by its bytes.
Accessors(h, u) ==
    [id |-> u.id, name |-> u.name, hashedPassword |-> Bytes(h, u.hashedPassword),
     role |-> u.role]

NoAccessors == [id |-> 0, name |-> <<>>, hashedPassword |-> <<>>, role |-> <<>>]

----------------------------------------------------------------------------
(* Inputs. *)

\* ' ', '!', '0', 'A', '~', DEL, U+00E9 (two bytes)
PwChars == {<<32>>, <<33>>, <<48>>, <<65>>, <<126>>, <<127>>, <<195, 169>>}

Cores(chars) == {<<>>} \cup chars \cup {a \o b : a \in chars, b \in chars}

\* Raw password inputs: up to three leading characters, then a run of one character.
PwInputs ==
    {c \o core \o Repeat(pad, k) :
        c \in {<<>>} \cup PwChars, core \in Cores(PwChars), pad \in PwChars, k \in 0..MaxPwPad}

\* '!', '0', 'A', 'z'
VerifyChars == {<<33>>, <<48>>, <<65>>, <<122>>}

VerifyInputs ==
    {core \o Repeat(pad, k) :
        core \in Cores(VerifyChars), pad \in VerifyChars, k \in 0..MaxVerifyPad}

\* 'a', U+00E9 (two bytes), U+3042 (three bytes), ' ', a stray continuation byte
NameChars == {<<97>>, <<195, 169>>, <<227, 129, 130>>, <<32>>, <<169>>}

NameInputs ==
    {pre \o Repeat(pad, k) :
        pre \in {<<>>} \cup NameChars, pad \in NameChars, k \in 0..MaxNamePad}

\* "al", "User", "root", "h1"
StrAl == <<97, 108>>
StrUserCapital == <<85, 115, 101, 114>>
StrRoot == <<114, 111, 111, 116>>
StrH1 == <<104, 49>>
\* "A0!A0!A0"
StrGoodPassword == <<65, 48, 33, 65, 48, 33, 65, 48>>
\* "A0!A0!A1"
StrOtherPassword == <<65, 48, 33, 65, 48, 33, 65, 49>>

\* identifiers are only compared with zero: a large one stands for the upper range of uint64
SrcIDs == {0, 1, 2147483647}
SrcNames ==
    {<<>>, StrAl, Repeat(<<97>>, UserNameMaxLength), Repeat(<<97>>, UserNameMaxLength + 1),
     Repeat(<<195, 169>>, UserNameMaxLength)}
SrcHashes == {<<>>, StrH1, Hash(StrGoodPassword, <<65>>).val}
SrcRoles == {RoleUser, RoleAdmin, <<>>, StrUserCapital, StrRoot}

SrcArgs ==
    [id : SrcIDs, name : SrcNames, hashedPassword : SrcHashes, role : SrcRoles]

\* Arguments of NewUser: values of the argument types, validated or converted.
NewUserArgs ==
    [id : {0}, name : {<<>>, StrAl, Repeat(<<195, 169>>, UserNameMaxLength)},
     hashedPassword : SrcHashes, role : {RoleUser, RoleAdmin, StrRoot}]

NoArgs == [id |-> 0, name |-> <<>>, hashedPassword |-> <<>>, role |-> <<>>]

\* Where and what a caller writes into a byte slice it holds.
WriteIdx(sl) == IF sl.len = 0 THEN {} ELSE {1, sl.len}
WriteBytes == {88}

----------------------------------------------------------------------------
(* The caller programs. *)

InitCommon ==
    /\ pc = "start"
    /\ password = <<>>
    /\ err = Nil
    /\ lastCall = "none"
    /\ ret = <<>>
    /\ hashErr = Nil
    /\ cand = <<>>
    /\ user = NilUser
    /\ got = NilUser
    /\ snap = NoAccessors
    /\ wraps = 0
    /\ writes = 0

Init ==
    /\ InitCommon
    /\ \/ /\ scen = "password"
          /\ v \in PwInputs
          /\ args = NoArgs /\ hashed = NilSlice /\ heap = <<>>
       \/ /\ scen = "verify"
          /\ v \in VerifyInputs
          /\ args = NoArgs /\ hashed = NilSlice /\ heap = <<>>
       \/ /\ scen = "name"
          /\ v \in NameInputs
          /\ args = NoArgs /\ hashed = NilSlice /\ heap = <<>>
       \/ /\ scen = "validators"
          /\ v = <<>>
          /\ args \in SrcArgs /\ hashed = NilSlice /\ heap = <<>>
       \/ /\ scen = "fromSource"
          /\ v = <<>>
          /\ args \in SrcArgs /\ hashed = NilSlice /\ heap = <<>>
       \/ /\ scen = "newUser"
          /\ v = <<>>
          /\ args \in NewUserArgs
          /\ heap = Alloc(<<>>, args.hashedPassword)
          /\ hashed = NewSlice(<<>>, args.hashedPassword)

\* p, err := NewPassword(v)
CallNewPassword ==
    /\ scen \in {"password", "verify"} /\ pc = "start"
    /\ LET r == NewPassword(v)
       IN  /\ ret' = r.val
           /\ err' = r.err
           /\ password' = r.val
           /\ pc' = IF r.err = Nil THEN "validated" ELSE "failed"
    /\ lastCall' = "NewPassword"
    /\ UNCHANGED <<scen, v, hashErr, hashed, cand, args, user, got, snap, heap, wraps, writes>>

\* h := p.Hash()
CallHash ==
    /\ scen \in {"password", "verify"} /\ pc = "validated"
    /\ \E salt \in Salts :
         LET g == Hash(password, salt)
         IN  /\ hashErr' = g.err
             /\ heap' = Alloc(heap, g.val)
             /\ hashed' = NewSlice(heap, g.val)
    /\ lastCall' = "Hash"
    /\ pc' = "hashed"
    /\ UNCHANGED <<scen, v, password, err, ret, cand, args, user, got, snap, wraps, writes>>

\* stored, err := NewHashedPassword(string(h))
CallNewHashedPasswordOfHash ==
    /\ scen = "password" /\ pc = "hashed"
    /\ LET r == NewHashedPassword(Bytes(heap, hashed))
       IN  /\ ret' = r.val
           /\ err' = r.err
           /\ pc' = IF r.err = Nil THEN "stored" ELSE "failed"
    /\ lastCall' = "NewHashedPassword"
    /\ UNCHANGED <<scen, v, password, hashErr, hashed, cand, args, user, got, snap, heap,
                   wraps, writes>>

\* q, err := NewPassword(w), the credential supplied at login
CallNewPasswordCandidate ==
    /\ scen = "verify" /\ pc = "hashed"
    /\ \E w \in VerifyInputs :
         LET r == NewPassword(w)
         IN  /\ v' = w
             /\ ret' = r.val
             /\ err' = r.err
             /\ cand' = r.val
             /\ pc' = IF r.err = Nil THEN "candidate" ELSE "failed"
    /\ lastCall' = "NewPassword"
    /\ UNCHANGED <<scen, password, hashErr, hashed, args, user, got, snap, heap, wraps, writes>>

\* err := h.Verify(q)
CallVerify ==
    /\ scen = "verify" /\ pc = "candidate"
    /\ err' = Verify(Bytes(heap, hashed), cand)
    /\ lastCall' = "Verify"
    /\ pc' = "verified"
    /\ UNCHANGED <<scen, v, password, ret, hashErr, hashed, cand, args, user, got, snap, heap,
                   wraps, writes>>

\* name, err := NewUserName(v)
CallNewUserName ==
    /\ scen = "name" /\ pc = "start"
    /\ LET r == NewUserName(v)
       IN  /\ ret' = r.val
           /\ err' = r.err
    /\ lastCall' = "NewUserName"
    /\ pc' = "returned"
    /\ UNCHANGED <<scen, v, password, hashErr, hashed, cand, args, user, got, snap, heap,
                   wraps, writes>>

\* One validator called on its own on the corresponding raw field.
CallValidator ==
    /\ scen = "validators" /\ pc = "start"
    /\ \E f \in {"NewUserID", "NewUserName", "NewHashedPassword", "NewUserRole"} :
         LET r == IF f = "NewUserID" THEN NewUserID(args.id)
                  ELSE IF f = "NewUserName" THEN NewUserName(args.name)
                  ELSE IF f = "NewHashedPassword" THEN NewHashedPassword(args.hashedPassword)
                  ELSE NewUserRole(args.role)
         IN  /\ ret' = r.val
             /\ err' = r.err
             /\ lastCall' = f
    /\ pc' = "returned"
    /\ UNCHANGED <<scen, v, password, hashErr, hashed, cand, args, user, got, snap, heap,
                   wraps, writes>>

\* u, err := NewUserFromSource(id, name, hashedPassword, role)
CallNewUserFromSource ==
    /\ scen = "fromSource" /\ pc = "start"
    /\ LET r == NewUserFromSource(heap, args)
       IN  /\ user' = r.user
           /\ err' = r.err
           /\ heap' = IF r.err = Nil THEN Alloc(heap, args.hashedPassword) ELSE heap
           /\ snap' = IF r.user.ptr = 0 THEN NoAccessors
                      ELSE Accessors(heap', r.user)
           /\ pc' = IF r.err = Nil THEN "constructed" ELSE "failed"
    /\ lastCall' = "NewUserFromSource"
    /\ UNCHANGED <<scen, v, password, ret, hashErr, hashed, cand, args, got, wraps, writes>>

\* u, err := NewUser(name, hashedPassword, role)
CallNewUser ==
    /\ scen = "newUser" /\ pc = "start"
    /\ LET r == NewUser(args.name, hashed, args.role)
       IN  /\ user' = r.user
           /\ err' = r.err
           /\ snap' = IF r.user.ptr = 0 THEN NoAccessors ELSE Accessors(heap, r.user)
           /\ pc' = IF r.err = Nil THEN "constructed" ELSE "failed"
    /\ lastCall' = "NewUser"
    /\ UNCHANGED <<scen, v, password, ret, hashErr, hashed, cand, args, got, heap, wraps,
                   writes>>

\* u.ID(), u.Name(), u.HashedPassword(), u.Role()
CallAccessors ==
    /\ pc = "constructed"
    /\ got # user
    /\ got' = user
    /\ UNCHANGED <<scen, pc, v, password, err, lastCall, ret, hashErr, hashed, cand, args,
                   user, snap, heap, wraps, writes>>

\* h := u.HashedPassword(); h[i] = b
WriteReturned ==
    /\ pc = "constructed" /\ got.ptr = 1 /\ writes < MaxWrites
    /\ \E i \in WriteIdx(got.hashedPassword), b \in WriteBytes :
         heap' = [heap EXCEPT ![got.hashedPassword.arr][i] = b]
    /\ writes' = writes + 1
    /\ UNCHANGED <<scen, pc, v, password, err, lastCall, ret, hashErr, hashed, cand, args,
                   user, got, snap, wraps>>

\* hashedPassword[i] = b, on the slice that was passed to NewUser
WriteArgument ==
    /\ scen = "newUser" /\ pc = "constructed" /\ writes < MaxWrites
    /\ \E i \in WriteIdx(hashed), b \in WriteBytes :
         heap' = [heap EXCEPT ![hashed.arr][i] = b]
    /\ writes' = writes + 1
    /\ UNCHANGED <<scen, pc, v, password, err, lastCall, ret, hashErr, hashed, cand, args,
                   user, got, snap, wraps>>

\* err := u.HashedPassword().Verify(q)
CallVerifyUser ==
    /\ scen = "fromSource" /\ pc = "constructed" /\ writes = 0
    /\ \E q \in {StrGoodPassword, StrOtherPassword} :
         /\ cand' = q
         /\ err' = Verify(Bytes(heap, user.hashedPassword), q)
    /\ lastCall' = "Verify"
    /\ pc' = "verified"
    /\ UNCHANGED <<scen, v, password, ret, hashErr, hashed, args, user, got, snap, heap,
                   wraps, writes>>

\* err = errors.WithStack(err), by a caller passing the error up
Rewrap ==
    /\ err # Nil /\ wraps < MaxWraps
    /\ err' = WithStack(err)
    /\ wraps' = wraps + 1
    /\ UNCHANGED <<scen, pc, v, password, lastCall, ret, hashErr, hashed, cand, args, user,
                   got, snap, heap, writes>>

Next ==
    \/ CallNewPassword
    \/ CallHash
    \/ CallNewHashedPasswordOfHash
    \/ CallNewPasswordCandidate
    \/ CallVerify
    \/ CallNewUserName
    \/ CallValidator
    \/ CallNewUserFromSource
    \/ CallNewUser
    \/ CallAccessors
    \/ WriteReturned
    \/ WriteArgument
    \/ CallVerifyUser
    \/ Rewrap

Spec == Init /\ [][Next]_vars

----------------------------------------------------------------------------
(* The password policy and the field rules, as the specification states them. *)

IsLetter(r) == (65 <= r /\ r <= 90) \/ (97 <= r /\ r <= 122)
IsDigit(r) == 48 <= r /\ r <= 57
IsPrintable(r) == 33 <= r /\ r <= 126
IsPunctuation(r) == IsPrintable(r) /\ ~IsLetter(r) /\ ~IsDigit(r)

CodePoints(s) == Len(Runes(s))

SatisfiesPolicy(s) ==
    LET rs == Runes(s)
    IN  /\ PasswordMinLength <= Len(rs) /\ Len(rs) <= PasswordMaxLength
        /\ \A i \in 1..Len(rs) : IsPrintable(rs[i])
        /\ \E i \in 1..Len(rs) : IsLetter(rs[i])
        /\ \E i \in 1..Len(rs) : IsDigit(rs[i])
        /\ \E i \in 1..Len(rs) : IsPunctuation(rs[i])

LacksPolicy(s) ==
    LET rs == Runes(s)
    IN  \/ \E i \in 1..Len(rs) : ~IsPrintable(rs[i])
        \/ ~\E i \in 1..Len(rs) : IsLetter(rs[i])
        \/ ~\E i \in 1..Len(rs) : IsDigit(rs[i])
        \/ ~\E i \in 1..Len(rs) : IsPunctuation(rs[i])

\* C1: NewPassword(v) succeeds, returning v itself, exactly when v has 8 to 16
\* code points, all in 0x21-0x7E, with a letter, a digit and a punctuation
\* character; otherwise it returns an error and the empty Password.
C1_PasswordPolicy ==
    lastCall = "NewPassword" =>
        /\ (err = Nil /\ ret = v) <=> SatisfiesPolicy(v)
        /\ ~SatisfiesPolicy(v) => (err # Nil /\ ret = <<>>)

C1_Witness ==
    /\ lastCall = "NewPassword" /\ scen = "password"
    /\ err = Nil /\ ret = v /\ CodePoints(v) = PasswordMaxLength

\* C2: NewPassword reports the first violation in the order empty, too short,
\* too long, policy: the length errors win over policy violations, and the
\* policy error is returned only for lengths within 8..16.
C2_PasswordCheckOrder ==
    lastCall = "NewPassword" =>
        /\ v = <<>> => Cause(err) = ErrPasswordEmpty
        /\ (v # <<>> /\ CodePoints(v) < PasswordMinLength) => Cause(err) = ErrPasswordTooShort
        /\ CodePoints(v) > PasswordMaxLength => Cause(err) = ErrPasswordTooLong
        /\ Cause(err) = ErrPasswordDoesNotFollowRule =>
               (PasswordMinLength <= CodePoints(v) /\ CodePoints(v) <= PasswordMaxLength)

C2_Witness ==
    /\ lastCall = "NewPassword"
    /\ CodePoints(v) > PasswordMaxLength /\ LacksPolicy(v)
    /\ Cause(err) = ErrPasswordTooLong

(* The rules of the four persisted fields. *)
ValidID(a) == a.id # 0
ValidName(a) == a.name # <<>> /\ CodePoints(a.name) <= UserNameMaxLength
ValidHash(a) == a.hashedPassword # <<>>
ValidRole(a) == a.role \in {RoleUser, RoleAdmin}
ValidSource(a) == ValidID(a) /\ ValidName(a) /\ ValidHash(a) /\ ValidRole(a)

NameSentinel(s) == IF s = <<>> THEN ErrUserNameEmpty ELSE ErrUserNameTooLong

\* C3: NewUserFromSource returns the error of the first invalid field in the
\* order identifier, name, hashed password, role, whatever the later fields are.
C3_FromSourceFirstError ==
    lastCall = "NewUserFromSource" =>
        /\ ~ValidID(args) => Cause(err) = ErrUserIDZero
        /\ (ValidID(args) /\ ~ValidName(args)) => Cause(err) = NameSentinel(args.name)
        /\ (ValidID(args) /\ ValidName(args) /\ ~ValidHash(args)) =>
               Cause(err) = ErrHashedPasswordEmpty
        /\ Cause(err) = ErrUserRoleInvalid =>
               (ValidID(args) /\ ValidName(args) /\ ValidHash(args))

C3_Witness ==
    /\ lastCall = "NewUserFromSource"
    /\ ValidID(args) /\ ~ValidName(args) /\ ~ValidHash(args) /\ ~ValidRole(args)
    /\ Cause(err) = ErrUserNameTooLong

\* C4: with h = p.Hash(), h.Verify(q) returns nil exactly when q = p, and for
\* q # p an error whose cause is ErrHashedPasswordNotMatch (p and q being
\* plaintext credentials, that is values NewPassword returned).
C4_VerifyIffSamePassword ==
    (scen = "verify" /\ lastCall = "Verify") =>
        /\ err = Nil <=> cand = password
        /\ cand # password => Cause(err) = ErrHashedPasswordNotMatch

\* q extends p by one more of p's last character.
C4_Witness ==
    /\ scen = "verify" /\ lastCall = "Verify"
    /\ Len(cand) = Len(password) + 1
    /\ SubSeq(cand, 1, Len(password)) = password
    /\ Cause(err) = ErrHashedPasswordNotMatch

C4_WitnessMatch ==
    /\ scen = "verify" /\ lastCall = "Verify"
    /\ cand = password /\ err = Nil

\* C5: NewUserFromSource returns either a User and no error or no User and an
\* error; a User exactly when all four fields are valid, and then the accessors
\* of the returned User give the four inputs.
C5_FromSourceAllOrNothing ==
    lastCall = "NewUserFromSource" =>
        /\ user.ptr = 1 <=> err = Nil
        /\ user.ptr = 0 => user = NilUser
        /\ user.ptr = 1 <=> ValidSource(args)
        /\ user.ptr = 1 => snap = args
        /\ (user.ptr = 1 /\ writes = 0) => Accessors(heap, user) = args

C5_Witness ==
    /\ lastCall = "NewUserFromSource" /\ user.ptr = 1 /\ err = Nil
    /\ got = user /\ CodePoints(args.name) = UserNameMaxLength

C5_WitnessRejected ==
    /\ lastCall = "NewUserFromSource" /\ user = NilUser /\ err # Nil
    /\ ValidID(args) /\ ValidName(args) /\ ValidHash(args) /\ ~ValidRole(args)

Sentinels ==
    {ErrUserIDZero, ErrUserNameEmpty, ErrUserNameTooLong, ErrHashedPasswordEmpty,
     ErrUserRoleInvalid, ErrPasswordEmpty, ErrPasswordTooShort, ErrPasswordTooLong,
     ErrPasswordDoesNotFollowRule, ErrHashedPasswordNotMatch}

\* The sentinel of the rule the most recent failed call found violated.
ViolatedRule ==
    IF lastCall = "NewPassword"
    THEN IF v = <<>> THEN ErrPasswordEmpty
         ELSE IF CodePoints(v) < PasswordMinLength THEN ErrPasswordTooShort
         ELSE IF CodePoints(v) > PasswordMaxLength THEN ErrPasswordTooLong
         ELSE ErrPasswordDoesNotFollowRule
    ELSE IF lastCall = "NewUserName"
    THEN NameSentinel(IF scen = "name" THEN v ELSE args.name)
    ELSE IF lastCall = "NewUserID" THEN ErrUserIDZero
    ELSE IF lastCall = "NewHashedPassword" THEN ErrHashedPasswordEmpty
    ELSE IF lastCall = "NewUserRole" THEN ErrUserRoleInvalid
    ELSE IF lastCall = "NewUserFromSource"
    THEN IF ~ValidID(args) THEN ErrUserIDZero
         ELSE IF ~ValidName(args) THEN NameSentinel(args.name)
         ELSE IF ~ValidHash(args) THEN ErrHashedPasswordEmpty
         ELSE ErrUserRoleInvalid
    ELSE IF lastCall = "Verify" THEN ErrHashedPasswordNotMatch
    ELSE Nil

\* C6: the cause chain of every returned error ends in exactly one of the ten
\* sentinels, the one of the rule that was violated, and an identity test
\* against it succeeds however often the error was wrapped.
C6_SentinelIdentityKept ==
    err # Nil =>
        /\ Cause(err) \in Sentinels
        /\ Cause(err) = ViolatedRule
        /\ Is(err, ViolatedRule)
        /\ \A s \in Sentinels \ {ViolatedRule} : ~Is(err, s)

C6_Witness ==
    /\ lastCall = "NewUserFromSource" /\ wraps = MaxWraps
    /\ Len(err) >= 3 + MaxWraps
    /\ Is(err, ErrUserNameTooLong)

C6_WitnessVerify ==
    /\ lastCall = "Verify" /\ wraps > 0
    /\ Is(err, ErrHashedPasswordNotMatch)

\* C7: once NewUser or NewUserFromSource has returned a User, nothing a caller
\* does (calling accessors, writing into the bytes HashedPassword() returned or
\* into the bytes passed to NewUser) changes what its accessors return.
C7_AggregateImmutable ==
    user.ptr = 1 => Accessors(heap, user) = snap

\* C8: NewUserName(s) fails exactly when s is empty (ErrUserNameEmpty) or has
\* more than 32 code points, not bytes (ErrUserNameTooLong); otherwise it
\* returns s unchanged.
C8_UserNameRule ==
    (scen = "name" /\ lastCall = "NewUserName") =>
        /\ err # Nil <=> (v = <<>> \/ CodePoints(v) > UserNameMaxLength)
        /\ v = <<>> => Cause(err) = ErrUserNameEmpty
        /\ CodePoints(v) > UserNameMaxLength => Cause(err) = ErrUserNameTooLong
        /\ err = Nil => ret = v
        /\ err # Nil => ret = <<>>

\* 32 characters of more than one byte each are accepted.
C8_Witness ==
    /\ scen = "name" /\ lastCall = "NewUserName"
    /\ CodePoints(v) = UserNameMaxLength /\ Len(v) >= 2 * UserNameMaxLength
    /\ err = Nil /\ ret = v

\* 33 single-byte characters are rejected.
C8_WitnessTooLong ==
    /\ scen = "name" /\ lastCall = "NewUserName"
    /\ CodePoints(v) = UserNameMaxLength + 1 /\ Len(v) = UserNameMaxLength + 1
    /\ Cause(err) = ErrUserNameTooLong

\* C9: NewUser always succeeds without validating: nil error, a User whose
\* identifier is zero and whose name, hashed password and role are the arguments.
C9_NewUserAssembles ==
    lastCall = "NewUser" =>
        /\ err = Nil
        /\ user.ptr = 1
        /\ user.id = 0
        /\ user.name = args.name
        /\ user.hashedPassword = hashed
        /\ user.role = args.role
        /\ snap = args

C9_Witness ==
    /\ lastCall = "NewUser" /\ user.ptr = 1
    /\ args.name = StrAl /\ args.role = RoleUser /\ hashed.len >= BcryptHashSize

\* C10: a Password accepted by NewPassword is single-byte throughout, 8 to 16
\* bytes long, below bcrypt's 72-byte limit; Hash on it does not fail and
\* returns a non-empty hash that NewHashedPassword accepts.
C10_HashOfValidatedPassword ==
    scen \in {"password", "verify"} =>
        /\ pc \in {"validated", "hashed", "stored"} =>
               /\ Len(password) = CodePoints(password)
               /\ PasswordMinLength <= Len(password) /\ Len(password) <= PasswordMaxLength
               /\ Len(password) < BcryptMaxPasswordLength
        /\ pc \in {"hashed", "stored"} => (hashErr = Nil /\ hashed.len > 0)
        /\ (scen = "password" /\ lastCall = "NewHashedPassword") =>
               (err = Nil /\ pc = "stored" /\ ret = Bytes(heap, hashed))

C10_Witness ==
    /\ scen = "password" /\ pc = "stored" /\ err = Nil
    /\ Len(password) = PasswordMaxLength /\ ret = Bytes(heap, hashed)

====
